---- MODULE Spec2Model ----
(***************************************************************************)
(* A model of figma_converter.py: the EnhancedFigmaConverter class and     *)
(* main().                                                                 *)
(*                                                                         *)
(* Representation.                                                         *)
(*   - A Python dict is a TLA+ function whose DOMAIN is the set of keys    *)
(*     that are present ("k in d" is  k \in DOMAIN d).                     *)
(*   - A value that may be None is a sequence of length at most one:       *)
(*     <<>> is None and <<v>> is v.                                        *)
(*   - A Python string that the program assembles is a sequence of tokens  *)
(*     (string concatenation is \o); strings that the program only         *)
(*     compares (type names, property names) are TLA+ strings.  A node id  *)
(*     is a sequence of one-character tokens.                              *)
(*   - Fractions (colour channels, alpha, gradient positions) are counted  *)
(*     in halves: the stored number h stands for h/2.                      *)
(*   - The stylesheet text is the sequence of its rule blocks; a block is  *)
(*     [selector, lines] and a line is [prop, value].                      *)
(***************************************************************************)
EXTENDS Integers, Sequences, FiniteSets, TLC

VARIABLES
    access_token,   \* os.getenv('FIGMA_ACCESS_TOKEN'): <<>> (unset) or <<string>>
    response,       \* the JSON body the API serves for the file key
    pc,             \* position of main()/run()
    exc,            \* the exception in flight: <<>> or <<[type, msg]>>
    stdout,         \* the lines printed so far
    requests,       \* the HTTP GETs issued so far
    figma_data,     \* run()'s figma_data: <<>> before the fetch returns
    stack,          \* process_node's call stack (innermost frame last)
    css,            \* generate_html_css's css accumulator
    html,           \* the markup returned by generate_html_css
    files           \* the files written under output/

vars == <<access_token, response, pc, exc, stdout, requests, figma_data,
          stack, css, html, files>>

----------------------------------------------------------------------------
(* Python helpers *)

EmptyDict == [k \in {} |-> 0]

None == <<>>

Some(v) == <<v>>

\* d.get(k, default)
Get(d, k, default) == IF k \in DOMAIN d THEN d[k] ELSE default

\* bool(d) of a dict-or-None held as an optional
Truthy(opt) == opt # None /\ DOMAIN opt[1] # {}

\* d[k] = v on an insertion-ordered dict held as a sequence of [prop, value]
DictSet(d, k, v) ==
    IF \E i \in 1..Len(d) : d[i].prop = k
    THEN [i \in 1..Len(d) |-> IF d[i].prop = k THEN [prop |-> k, value |-> v] ELSE d[i]]
    ELSE Append(d, [prop |-> k, value |-> v])

\* int(h/2 * scale) for a non-negative fraction counted in halves
IntOfHalves(h, scale) == (h * scale) \div 2

\* str() of a fraction counted in halves
FmtHalves(h) == IF h % 2 = 0 THEN ToString(h \div 2) ELSE ToString(h \div 2) \o ".5"

\* str(n) followed by "px"
Px(n) == <<ToString(n), "px">>

RECURSIVE Flatten(_)
Flatten(ss) == IF ss = <<>> THEN <<>> ELSE Head(ss) \o Flatten(Tail(ss))

----------------------------------------------------------------------------
(* convert_color *)

ChannelScale == 255

convert_color(color) ==
    IF DOMAIN color = {}
    THEN <<"transparent">>
    ELSE LET r == IntOfHalves(Get(color, "r", 0), ChannelScale)
             g == IntOfHalves(Get(color, "g", 0), ChannelScale)
             b == IntOfHalves(Get(color, "b", 0), ChannelScale)
             a == Get(color, "a", 2)
         IN IF a < 2
            THEN <<"rgba(", ToString(r), ", ", ToString(g), ", ", ToString(b), ", ", FmtHalves(a), ")">>
            ELSE <<"rgb(", ToString(r), ", ", ToString(g), ", ", ToString(b), ")">>

(* convert_fill *)

PercentScale == 100

GradientStop(stop) ==
    convert_color(Get(stop, "color", EmptyDict))
        \o <<" ", ToString(IntOfHalves(Get(stop, "position", 0), PercentScale)), "%">>

convert_fill(fills) ==
    IF fills = <<>>
    THEN <<"transparent">>
    ELSE LET fill == fills[1]
         IN IF Get(fill, "type", "None") = "SOLID"
            THEN convert_color(Get(fill, "color", EmptyDict))
            ELSE IF Get(fill, "type", "None") = "GRADIENT_LINEAR"
            THEN LET stops == Get(fill, "gradientStops", <<>>)
                     gradient_stops == [i \in 1..Len(stops) |-> GradientStop(stops[i])]
                 IN <<"linear-gradient(">>
                        \o (IF gradient_stops # <<>> THEN gradient_stops[1] ELSE <<"transparent">>)
                        \o <<")">>
            ELSE <<"transparent">>

----------------------------------------------------------------------------
(* convert_text_style *)

TextAlignMap(v) ==
    CASE v = "LEFT" -> "left"
      [] v = "CENTER" -> "center"
      [] v = "RIGHT" -> "right"
      [] v = "JUSTIFIED" -> "justify"
      [] OTHER -> "left"

convert_text_style(style) ==
    LET c1 == IF "fontFamily" \in DOMAIN style
              THEN DictSet(<<>>, "font-family", <<"\"", style["fontFamily"], "\", sans-serif">>)
              ELSE <<>>
        c2 == IF "fontSize" \in DOMAIN style
              THEN DictSet(c1, "font-size", Px(style["fontSize"]))
              ELSE c1
        c3 == IF "fontWeight" \in DOMAIN style
              THEN DictSet(c2, "font-weight", <<ToString(style["fontWeight"])>>)
              ELSE c2
        c4 == IF "lineHeightPx" \in DOMAIN style
              THEN DictSet(c3, "line-height", Px(style["lineHeightPx"]))
              ELSE c3
        c5 == IF "letterSpacing" \in DOMAIN style
              THEN DictSet(c4, "letter-spacing", Px(style["letterSpacing"]))
              ELSE c4
        c6 == IF "textAlignHorizontal" \in DOMAIN style
              THEN DictSet(c5, "text-align", <<TextAlignMap(style["textAlignHorizontal"])>>)
              ELSE c5
        c7 == IF "textDecoration" \in DOMAIN style
              THEN IF style["textDecoration"] = "UNDERLINE"
                   THEN DictSet(c6, "text-decoration", <<"underline">>)
                   ELSE IF style["textDecoration"] = "STRIKETHROUGH"
                   THEN DictSet(c6, "text-decoration", <<"line-through">>)
                   ELSE c6
              ELSE c6
    IN c7

----------------------------------------------------------------------------
(* convert_layout *)

\* The subscripts convert_layout evaluates on the bounding boxes, in order:
\* <<which dict, key>>.
BBoxReads(parent_bbox) ==
    IF Truthy(parent_bbox)
    THEN <<<<"bbox", "x">>, <<"parent", "x">>, <<"bbox", "y">>, <<"parent", "y">>,
           <<"bbox", "width">>, <<"bbox", "height">>>>
    ELSE <<<<"bbox", "x">>, <<"bbox", "y">>, <<"bbox", "width">>, <<"bbox", "height">>>>

\* The subscripts among them that raise KeyError.
MissingReads(node, parent_bbox) ==
    LET reads == BBoxReads(parent_bbox)
    IN {i \in 1..Len(reads) :
           LET d == IF reads[i][1] = "bbox" THEN node["absoluteBoundingBox"] ELSE parent_bbox[1]
           IN reads[i][2] \notin DOMAIN d}

\* convert_layout raises (KeyError) instead of returning
LayoutRaises(node, parent_bbox) ==
    /\ "absoluteBoundingBox" \in DOMAIN node
    /\ MissingReads(node, parent_bbox) # {}

\* the exception it raises then
LayoutError(node, parent_bbox) ==
    LET reads == BBoxReads(parent_bbox)
        m == MissingReads(node, parent_bbox)
        first == CHOOSE i \in m : \A j \in m : i <= j
    IN [type |-> "KeyError", msg |-> <<"'", reads[first][2], "'">>]

PrimaryAlignMap(v) ==
    CASE v = "MIN" -> "flex-start"
      [] v = "CENTER" -> "center"
      [] v = "MAX" -> "flex-end"
      [] v = "SPACE_BETWEEN" -> "space-between"
      [] v = "SPACE_AROUND" -> "space-around"
      [] OTHER -> "flex-start"

CounterAlignMap(v) ==
    CASE v = "MIN" -> "flex-start"
      [] v = "CENTER" -> "center"
      [] v = "MAX" -> "flex-end"
      [] v = "BASELINE" -> "baseline"
      [] OTHER -> "flex-start"

\* lines 131-144
LayoutPosition(node, parent_bbox) ==
    IF "absoluteBoundingBox" \in DOMAIN node
    THEN LET bbox == node["absoluteBoundingBox"]
             p1 == IF Truthy(parent_bbox)
                   THEN LET rel_x == bbox["x"] - parent_bbox[1]["x"]
                            rel_y == bbox["y"] - parent_bbox[1]["y"]
                        IN DictSet(DictSet(DictSet(<<>>, "position", <<"absolute">>),
                                           "left", Px(rel_x)), "top", Px(rel_y))
                   ELSE DictSet(DictSet(DictSet(<<>>, "position", <<"absolute">>),
                                        "left", Px(bbox["x"])), "top", Px(bbox["y"]))
         IN DictSet(DictSet(p1, "width", Px(bbox["width"])), "height", Px(bbox["height"]))
    ELSE <<>>

\* mutant: the alignments are read whether or not layoutMode is present
LayoutAutoUnnested(node, css0) ==
    LET a1 == IF Get(node, "layoutMode", "None") = "HORIZONTAL"
              THEN DictSet(DictSet(css0, "display", <<"flex">>), "flex-direction", <<"row">>)
              ELSE IF Get(node, "layoutMode", "None") = "VERTICAL"
              THEN DictSet(DictSet(css0, "display", <<"flex">>), "flex-direction", <<"column">>)
              ELSE css0
        a2 == IF "primaryAxisAlignItems" \in DOMAIN node
              THEN DictSet(a1, "justify-content", <<PrimaryAlignMap(node["primaryAxisAlignItems"])>>)
              ELSE a1
        a3 == IF "counterAxisAlignItems" \in DOMAIN node
              THEN DictSet(a2, "align-items", <<CounterAlignMap(node["counterAxisAlignItems"])>>)
              ELSE a2
    IN a3

\* lines 147-174
LayoutAuto(node, css0) ==
    IF "layoutMode" \in DOMAIN node
    THEN LET a1 == IF node["layoutMode"] = "HORIZONTAL"
                   THEN DictSet(DictSet(css0, "display", <<"flex">>), "flex-direction", <<"row">>)
                   ELSE IF node["layoutMode"] = "VERTICAL"
                   THEN DictSet(DictSet(css0, "display", <<"flex">>), "flex-direction", <<"column">>)
                   ELSE css0
             a2 == IF "primaryAxisAlignItems" \in DOMAIN node
                   THEN DictSet(a1, "justify-content", <<PrimaryAlignMap(node["primaryAxisAlignItems"])>>)
                   ELSE a1
             a3 == IF "counterAxisAlignItems" \in DOMAIN node
                   THEN DictSet(a2, "align-items", <<CounterAlignMap(node["counterAxisAlignItems"])>>)
                   ELSE a2
         IN a3
    ELSE css0

\* lines 177-192
LayoutBox(node, css0) ==
    LET b1 == IF "paddingLeft" \in DOMAIN node
              THEN DictSet(css0, "padding-left", Px(node["paddingLeft"])) ELSE css0
        b2 == IF "paddingRight" \in DOMAIN node
              THEN DictSet(b1, "padding-right", Px(node["paddingRight"])) ELSE b1
        b3 == IF "paddingTop" \in DOMAIN node
              THEN DictSet(b2, "padding-top", Px(node["paddingTop"])) ELSE b2
        b4 == IF "paddingBottom" \in DOMAIN node
              THEN DictSet(b3, "padding-bottom", Px(node["paddingBottom"])) ELSE b3
        b5 == IF "itemSpacing" \in DOMAIN node
              THEN DictSet(b4, "gap", Px(node["itemSpacing"])) ELSE b4
        b6 == IF "cornerRadius" \in DOMAIN node
              THEN DictSet(b5, "border-radius", Px(node["cornerRadius"])) ELSE b5
    IN b6

\* lines 195-201
LayoutConstraints(node, css0) ==
    IF "constraints" \in DOMAIN node
    THEN LET constraints == node["constraints"]
         IN IF Get(constraints, "horizontal", "None") = "CENTER"
            THEN DictSet(DictSet(css0, "margin-left", <<"auto">>), "margin-right", <<"auto">>)
            ELSE IF Get(constraints, "horizontal", "None") = "RIGHT"
            THEN DictSet(css0, "margin-left", <<"auto">>)
            ELSE css0
    ELSE css0

\* the dict convert_layout returns when it does not raise
convert_layout(node, parent_bbox) ==
    LayoutConstraints(node, LayoutBox(node, LayoutAuto(node, LayoutPosition(node, parent_bbox))))

----------------------------------------------------------------------------
(* class names: lines 226-228 and 250-252 *)

\* the characters re.sub(r"[^A-Za-z0-9_-]", "-", raw_id) keeps
SafeChars ==
    {"A", "B", "C", "D", "E", "F", "G", "H", "I", "J", "K", "L", "M",
     "N", "O", "P", "Q", "R", "S", "T", "U", "V", "W", "X", "Y", "Z",
     "a", "b", "c", "d", "e", "f", "g", "h", "i", "j", "k", "l", "m",
     "n", "o", "p", "q", "r", "s", "t", "u", "v", "w", "x", "y", "z",
     "0", "1", "2", "3", "4", "5", "6", "7", "8", "9", "_", "-"}

\* mutant: the replacement character is "_"
SanitizeCharUnderscore(c) == IF c \in SafeChars THEN c ELSE "_"

SanitizeChar(c) == IF c \in SafeChars THEN c ELSE "-"

safe_id(raw_id) == [i \in 1..Len(raw_id) |-> SanitizeChar(raw_id[i])]

\* str.lower() on the node types of the Figma API
Lower(t) ==
    CASE t = "DOCUMENT" -> "document"
      [] t = "CANVAS" -> "canvas"
      [] t = "FRAME" -> "frame"
      [] t = "GROUP" -> "group"
      [] t = "RECTANGLE" -> "rectangle"
      [] t = "ELLIPSE" -> "ellipse"
      [] t = "TEXT" -> "text"
      [] t = "VECTOR" -> "vector"
      [] t = "COMPONENT" -> "component"
      [] t = "INSTANCE" -> "instance"
      [] t = "BOOLEAN_OPERATION" -> "boolean_operation"
      [] OTHER -> t

UnknownId == <<"u", "n", "k", "n", "o", "w", "n">>

class_name(node) ==
    <<"figma-", Lower(Get(node, "type", "frame")), "-">> \o safe_id(Get(node, "id", UnknownId))

----------------------------------------------------------------------------
(* convert_node_to_css *)

Line(prop, value) == [prop |-> prop, value |-> value]

\* mutant: the resolved fill is written without the comparison with the sentinel
FillRulesUnfiltered(node) ==
    IF "fills" \in DOMAIN node
    THEN LET fill == IF node["fills"] # <<>> THEN Some(node["fills"][1]) ELSE None
         IN IF /\ Get(node, "type", "None") = "TEXT"
               /\ Truthy(fill)
               /\ Get(fill[1], "type", "None") = "SOLID"
            THEN <<Line("color", convert_color(Get(fill[1], "color", EmptyDict)))>>
            ELSE IF Truthy(fill)
            THEN <<Line("background", convert_fill(node["fills"]))>>
            ELSE <<>>
    ELSE <<>>

\* lines 260-269
FillRules(node) ==
    IF "fills" \in DOMAIN node
    THEN LET fill == IF node["fills"] # <<>> THEN Some(node["fills"][1]) ELSE None
         IN IF /\ Get(node, "type", "None") = "TEXT"
               /\ Truthy(fill)
               /\ Get(fill[1], "type", "None") = "SOLID"
            THEN <<Line("color", convert_color(Get(fill[1], "color", EmptyDict)))>>
            ELSE IF Truthy(fill)
            THEN LET background == convert_fill(node["fills"])
                 IN IF background # <<"transparent">>
                    THEN <<Line("background", background)>>
                    ELSE <<>>
            ELSE <<>>
    ELSE <<>>

\* lines 272-274
TextRules(node) ==
    IF Get(node, "type", "None") = "TEXT" /\ "style" \in DOMAIN node
    THEN convert_text_style(node["style"])
    ELSE <<>>

\* lines 277-282
StrokeRules(node) ==
    IF "strokes" \in DOMAIN node /\ node["strokes"] # <<>>
    THEN LET stroke == node["strokes"][1]
         IN IF Get(stroke, "type", "None") = "SOLID"
            THEN LET color == convert_color(Get(stroke, "color", EmptyDict))
                     stroke_weight == Get(stroke, "strokeWeight", 1)
                 IN <<Line("border", <<ToString(stroke_weight), "px solid ">> \o color)>>
            ELSE <<>>
    ELSE <<>>

\* lines 287-292: the lines one effect appends
EffectRule(effect) ==
    IF Get(effect, "type", "None") = "DROP_SHADOW"
    THEN LET offset_x == Get(Get(effect, "offset", EmptyDict), "x", 0)
             offset_y == Get(Get(effect, "offset", EmptyDict), "y", 0)
             blur_radius == Get(effect, "radius", 0)
             color == convert_color(Get(effect, "color", EmptyDict))
         IN <<Line("box-shadow", <<ToString(offset_x), "px ", ToString(offset_y), "px ",
                                   ToString(blur_radius), "px ">> \o color)>>
    ELSE <<>>

\* mutant: only the first effect is consulted, as for fills and strokes
EffectRulesFirstOnly(node) ==
    IF "effects" \in DOMAIN node /\ node["effects"] # <<>>
    THEN EffectRule(node["effects"][1])
    ELSE <<>>

\* lines 285-292
EffectRules(node) ==
    IF "effects" \in DOMAIN node
    THEN Flatten([i \in 1..Len(node["effects"]) |-> EffectRule(node["effects"][i])])
    ELSE <<>>

\* css_rules when convert_layout does not raise
css_rules(node, parent_bbox) ==
    convert_layout(node, parent_bbox) \o FillRules(node) \o TextRules(node)
        \o StrokeRules(node) \o EffectRules(node)

\* mutant: a block is returned even when css_rules is empty
convert_node_to_css_always(node, parent_bbox) ==
    <<[selector |-> class_name(node), lines |-> css_rules(node, parent_bbox)]>>

\* the returned css_block: no block ("") or one block
convert_node_to_css(node, parent_bbox) ==
    LET rules == css_rules(node, parent_bbox)
    IN IF rules # <<>>
       THEN <<[selector |-> class_name(node), lines |-> rules]>>
       ELSE <<>>

----------------------------------------------------------------------------
(* convert_node_to_html *)

TagMap(t) ==
    CASE t = "TEXT" -> "p"
      [] t \in {"FRAME", "GROUP", "RECTANGLE", "ELLIPSE", "VECTOR", "COMPONENT",
                "INSTANCE", "BOOLEAN_OPERATION", "CANVAS"} -> "div"
      [] OTHER -> "div"

Indent(level) == [i \in 1..level |-> "  "]

RECURSIVE convert_node_to_html(_, _)
convert_node_to_html(node, level) ==
    LET tag == TagMap(Get(node, "type", "FRAME"))
        content == IF Get(node, "type", "None") = "TEXT" /\ "characters" \in DOMAIN node
                   THEN <<node["characters"]>>
                   ELSE <<>>
        children_html ==
            IF "children" \in DOMAIN node
            THEN Flatten([i \in 1..Len(node["children"]) |->
                             convert_node_to_html(node["children"][i], level + 1)])
            ELSE <<>>
    IN Indent(level) \o <<"<", tag, " class=\"">> \o class_name(node) \o <<"\">">>
          \o content \o children_html \o <<"</", tag, ">\n">>

----------------------------------------------------------------------------
(* The documents the API may serve.  Each family varies the fields one      *)
(* part of the converter reads and leaves the other fields absent.          *)

MaxNodes == 4      \* nodes of a tree document
MaxIdLen == 2      \* characters of a node id in the id family
MaxEffects == 2    \* entries of an effects list

\* all sequences over S of length 0..n
SeqsUpTo(S, n) == UNION {[1..k -> S] : k \in 0..n}

Id(i) == <<"1", ":", ToString(i)>>

BoxA == [x |-> 10, y |-> 20, width |-> 100, height |-> 30]

BoxB == [x |-> 40, y |-> 70, width |-> 50, height |-> 60]

\* a box with a member missing, and the empty box
BoxNoX == [y |-> 20, width |-> 100, height |-> 30]

\* a box with a later member missing
BoxNoHeight == [x |-> 10, y |-> 20, width |-> 100]

\* absent (None) or well-formed
BBoxOptions == {None, Some(BoxA), Some(BoxB)}

\* absent, well-formed, or malformed
BadBBoxOptions == BBoxOptions \cup {Some(BoxNoX), Some(BoxNoHeight), Some(EmptyDict)}

\* with(d, k, opt): d with key k set when opt is not None
With(d, k, opt) == IF opt = None THEN d ELSE (k :> opt[1]) @@ d

\* the parent vectors of the trees on nodes 1..n rooted at 1
ParentVectors(n) == {p \in [2..n -> 1..n] : \A i \in 2..n : p[i] < i}

ChildIndexes(p, n, i) ==
    LET S == {j \in 2..n : p[j] = i}
        RECURSIVE Sorted(_)
        Sorted(T) == IF T = {} THEN <<>>
                     ELSE LET m == CHOOSE a \in T : \A b \in T : a <= b
                          IN <<m>> \o Sorted(T \ {m})
    IN Sorted(S)

RECURSIVE BuildNode(_, _, _, _)
BuildNode(p, n, boxes, i) ==
    LET kids == ChildIndexes(p, n, i)
        base == With([id |-> Id(i), type |-> "FRAME"], "absoluteBoundingBox", boxes[i])
    IN IF kids = <<>>
       THEN base
       ELSE ("children" :> [k \in 1..Len(kids) |-> BuildNode(p, n, boxes, kids[k])]) @@ base

\* every tree shape, each node with or without a box
TreeDocs ==
    UNION {{BuildNode(p, n, boxes, 1) : p \in ParentVectors(n),
                                        boxes \in [1..n -> {None, Some(BoxA)}]}
           : n \in 1..MaxNodes}

\* the trees of up to three nodes, each node with any box
BoxDocs ==
    UNION {{BuildNode(p, n, boxes, 1) : p \in ParentVectors(n), boxes \in [1..n -> BadBBoxOptions]}
           : n \in 1..3}

\* paints
Red == [r |-> 2, g |-> 0, b |-> 0, a |-> 2]

HalfBlue == [b |-> 2, a |-> 1]

FillsOptions ==
    { None,
      Some(<<>>),
      Some(<<EmptyDict>>),
      Some(<<[type |-> "SOLID", color |-> Red]>>),
      Some(<<[type |-> "SOLID", color |-> HalfBlue]>>),
      Some(<<[type |-> "SOLID"]>>),
      Some(<<[type |-> "GRADIENT_LINEAR",
              gradientStops |-> <<[color |-> Red, position |-> 0],
                                  [color |-> HalfBlue, position |-> 2]>>]>>),
      Some(<<[type |-> "GRADIENT_LINEAR", gradientStops |-> <<[position |-> 1]>>]>>),
      Some(<<[type |-> "GRADIENT_LINEAR"]>>),
      Some(<<[type |-> "IMAGE"]>>),
      Some(<<[type |-> "SOLID", color |-> Red], [type |-> "IMAGE"]>>) }

StrokesOptions ==
    { None,
      Some(<<>>),
      Some(<<[type |-> "SOLID", color |-> Red, strokeWeight |-> 2]>>),
      Some(<<[type |-> "SOLID"]>>),
      Some(<<[type |-> "GRADIENT_LINEAR"], [type |-> "SOLID", color |-> Red]>>) }

EffectKinds ==
    { [type |-> "DROP_SHADOW", offset |-> [x |-> 1, y |-> 2], radius |-> 4, color |-> HalfBlue],
      [type |-> "DROP_SHADOW"],
      [type |-> "LAYER_BLUR", radius |-> 4] }

EffectsOptions == {None} \cup {Some(e) : e \in SeqsUpTo(EffectKinds, MaxEffects)}

StyleOptions ==
    { None,
      Some([fontFamily |-> "Inter", fontSize |-> 16, fontWeight |-> 700, lineHeightPx |-> 24,
            letterSpacing |-> 0, textAlignHorizontal |-> "JUSTIFIED",
            textDecoration |-> "STRIKETHROUGH"]),
      Some([textAlignHorizontal |-> "TOP", textDecoration |-> "NONE"]) }

\* every combination of a fills list, a strokes list and no effects or a drop
\* shadow without colour
PaintDocs ==
    { With(With(With(With([id |-> Id(1), type |-> t, characters |-> "Hi"],
                          "fills", f), "strokes", k), "effects", e), "style", st) :
          t \in {"TEXT", "RECTANGLE"}, f \in FillsOptions, k \in StrokesOptions,
          e \in {None, Some(<<[type |-> "DROP_SHADOW"]>>)}, st \in StyleOptions }

\* every effects list
EffectDocs ==
    { With(With([id |-> Id(1), type |-> t], "strokes", k), "effects", e) :
          t \in {"TEXT", "RECTANGLE"}, k \in {None, Some(<<[type |-> "SOLID"]>>)},
          e \in EffectsOptions }

\* node ids
IdChars == {"1", ":", ";", "-"}

IdOptions == SeqsUpTo(IdChars, MaxIdLen) \ {<<>>}

IdDocs ==
    { [id |-> <<"0", ":", "0">>, type |-> "DOCUMENT",
       children |-> <<[id |-> q[1], type |-> "RECTANGLE", cornerRadius |-> 4],
                      [id |-> q[2], type |-> "RECTANGLE", cornerRadius |-> 8]>>] :
          q \in {r \in IdOptions \X IdOptions : r[1] # r[2]}
                   \cup {<<<<"I", "1", ":", "2", ";", "3", ":", "4">>,
                           <<"I", "1", ";", "2", ":", "3", ";", "4">>>>} }

\* auto layout
LayoutModeOptions == {None, Some("HORIZONTAL"), Some("VERTICAL"), Some("NONE")}

PrimaryOptions == {None, Some("MIN"), Some("CENTER"), Some("SPACE_BETWEEN"), Some("STRETCH")}

CounterOptions == {None, Some("MAX"), Some("BASELINE"), Some("STRETCH")}

PaddingOptions ==
    { EmptyDict,
      [paddingLeft |-> 8],
      [paddingLeft |-> 8, paddingRight |-> 6, paddingTop |-> 4, paddingBottom |-> 2,
       itemSpacing |-> 12, cornerRadius |-> 3] }

ConstraintsOptions ==
    { None, Some(EmptyDict), Some([horizontal |-> "CENTER", vertical |-> "TOP"]),
      Some([horizontal |-> "RIGHT"]), Some([horizontal |-> "LEFT"]) }

FlexDocs ==
    { With(With(With(With([id |-> Id(1), type |-> "FRAME"] @@ pad,
                          "layoutMode", m), "primaryAxisAlignItems", pa),
                "counterAxisAlignItems", ca), "constraints", c) :
          m \in LayoutModeOptions, pa \in PrimaryOptions, ca \in CounterOptions,
          pad \in PaddingOptions, c \in ConstraintsOptions }

\* end-to-end scenario 1 of the documentation, and a node with neither id nor type
Scenario1 ==
    [id |-> Id(1), type |-> "FRAME",
     absoluteBoundingBox |-> [x |-> 0, y |-> 0, width |-> 800, height |-> 600],
     children |-> <<[id |-> Id(2), type |-> "TEXT", characters |-> "Hi",
                     absoluteBoundingBox |-> BoxA,
                     fills |-> <<[type |-> "SOLID", color |-> Red]>>]>>]

Documents ==
    TreeDocs \cup BoxDocs \cup PaintDocs \cup EffectDocs \cup IdDocs \cup FlexDocs \cup {Scenario1, [cornerRadius |-> 4]}

\* the JSON bodies: a file with a document, or a body without one
Responses == {[name |-> "file", document |-> d] : d \in Documents} \cup {[name |-> "file"]}

\* the environment: the token unset, empty, or set
Tokens == {None, Some(""), Some("figd_token")}

----------------------------------------------------------------------------
(* The run: main(), __init__, run(), fetch_figma_file, generate_html_css,   *)
(* save_output.                                                             *)

Init ==
    /\ access_token \in Tokens
    /\ response \in Responses
    /\ pc = "main"
    /\ exc = None
    /\ stdout = <<>>
    /\ requests = <<>>
    /\ figma_data = None
    /\ stack = <<>>
    /\ css = <<>>
    /\ html = <<>>
    /\ files = EmptyDict

FileKey == "FILEKEY"

\* not self.access_token
TokenMissing == access_token = None \/ access_token[1] = ""

\* mutant: the token is not checked
ConstructUnchecked ==
    /\ pc = "main"
    /\ pc' = "run"
    /\ UNCHANGED <<access_token, response, exc, stdout, requests, figma_data, stack, css, html, files>>

\* __init__ (lines 24-33), called from main (line 387)
Construct ==
    /\ pc = "main"
    /\ IF TokenMissing
       THEN /\ exc' = Some([type |-> "ValueError",
                            msg |-> <<"FIGMA_ACCESS_TOKEN not found in environment variables">>])
            /\ pc' = "except"
       ELSE /\ exc' = exc
            /\ pc' = "run"
    /\ UNCHANGED <<access_token, response, stdout, requests, figma_data, stack, css, html, files>>

\* what requests.get / raise_for_status / json() may do
FetchOutcomes == {"ok", "ConnectionError", "HTTPError"}

\* run lines 373-374 with fetch_figma_file (lines 35-45)
Fetch ==
    /\ pc = "run"
    /\ requests' = Append(requests, [url |-> <<"https://api.figma.com/v1", "/files/", FileKey>>,
                                     token |-> access_token])
    /\ \E outcome \in FetchOutcomes :
          IF outcome = "ok"
          THEN /\ figma_data' = Some(response)
               /\ stdout' = Append(stdout, <<"Fetching Figma file...">>)
               /\ exc' = exc
               /\ pc' = "convert"
          ELSE /\ figma_data' = figma_data
               /\ stdout' = stdout \o << <<"Fetching Figma file...">>,
                                         <<"Error fetching Figma file: ", outcome>> >>
               /\ exc' = Some([type |-> outcome, msg |-> <<outcome>>])
               /\ pc' = "except"
    /\ UNCHANGED <<access_token, response, stack, css, html, files>>

\* figma_data.get('document', {})
Document == Get(figma_data[1], "document", EmptyDict)

\* run line 376-377 and generate_html_css up to the call process_node(document)
\* (lines 303-343)
GenerateStart ==
    /\ pc = "convert"
    /\ stdout' = Append(stdout, <<"Converting to HTML/CSS...">>)
    /\ css' = <<>>
    /\ stack' = <<[node |-> Document, parent_bbox |-> None, entered |-> FALSE, i |-> 0]>>
    /\ pc' = "process"
    /\ UNCHANGED <<access_token, response, exc, requests, figma_data, html, files>>

Top == stack[Len(stack)]

Pop(st) == SubSeq(st, 1, Len(st) - 1)

\* process_node line 335: css += self.convert_node_to_css(node, parent_bbox)
ProcessNodeEnter ==
    /\ pc = "process"
    /\ stack # <<>>
    /\ ~Top.entered
    /\ IF LayoutRaises(Top.node, Top.parent_bbox)
       THEN /\ exc' = Some(LayoutError(Top.node, Top.parent_bbox))
            /\ stack' = <<>>
            /\ css' = css
            /\ pc' = "except"
       ELSE /\ css' = css \o convert_node_to_css(Top.node, Top.parent_bbox)
            /\ stack' = [stack EXCEPT ![Len(stack)].entered = TRUE]
            /\ exc' = exc
            /\ pc' = pc
    /\ UNCHANGED <<access_token, response, stdout, requests, figma_data, html, files>>

\* the children process_node iterates over (lines 337, 339)
Children(node) == IF "children" \in DOMAIN node THEN node["children"] ELSE <<>>

\* node.get('absoluteBoundingBox')
this_bbox(node) ==
    IF "absoluteBoundingBox" \in DOMAIN node THEN Some(node["absoluteBoundingBox"]) ELSE None

\* mutant: the box handed down is the first boxed ancestor's, not the node's own
ChildFrameAncestorBox(frame) ==
    [node |-> Children(frame.node)[frame.i + 1],
     parent_bbox |-> IF frame.parent_bbox # None THEN frame.parent_bbox ELSE this_bbox(frame.node),
     entered |-> FALSE, i |-> 0]

\* mutant: the children are visited last to first
ChildFrameReversed(frame) ==
    [node |-> Children(frame.node)[Len(Children(frame.node)) - frame.i],
     parent_bbox |-> this_bbox(frame.node), entered |-> FALSE, i |-> 0]

\* the frame process_node pushes for its next child (lines 338-340)
ChildFrame(frame) ==
    [node |-> Children(frame.node)[frame.i + 1], parent_bbox |-> this_bbox(frame.node),
     entered |-> FALSE, i |-> 0]

\* process_node lines 337-340: the call for the next child
ProcessNodeChild ==
    /\ pc = "process"
    /\ stack # <<>>
    /\ Top.entered
    /\ Top.i < Len(Children(Top.node))
    /\ stack' = Append([stack EXCEPT ![Len(stack)].i = @ + 1], ChildFrame(Top))
    /\ UNCHANGED <<access_token, response, pc, exc, stdout, requests, figma_data, css, html, files>>

\* process_node returns: its loop is over, or the node has no children
ProcessNodeReturn ==
    /\ pc = "process"
    /\ stack # <<>>
    /\ Top.entered
    /\ Top.i = Len(Children(Top.node))
    /\ stack' = Pop(stack)
    /\ pc' = IF Len(stack) = 1 THEN "html" ELSE pc
    /\ UNCHANGED <<access_token, response, exc, stdout, requests, figma_data, css, html, files>>

\* the text of one css_block (line 296)
RenderBlock(block) ==
    <<".">> \o block.selector \o <<" {\n">>
        \o Flatten([j \in 1..Len(block.lines) |->
                      (IF j > 1 THEN <<"\n">> ELSE <<>>)
                          \o <<"  ", block.lines[j].prop, ": ">> \o block.lines[j].value \o <<";">>])
        \o <<"\n}\n\n">>

RenderCss(blocks) == Flatten([j \in 1..Len(blocks) |-> RenderBlock(blocks[j])])

HtmlHead == <<"<!DOCTYPE html>\n<html lang=\"en\">\n<head>", "<style>", ".figma-container {">>

BodyLevel == 2

\* generate_html_css lines 346-355
BuildHtml ==
    /\ pc = "html"
    /\ html' = HtmlHead \o RenderCss(css)
                  \o <<"    </style>\n</head>\n<body>\n", "    <div class=\"figma-container\">\n">>
                  \o convert_node_to_html(Document, BodyLevel)
                  \o <<"    </div>\n</body>\n</html>">>
    /\ pc' = "save"
    /\ UNCHANGED <<access_token, response, exc, stdout, requests, figma_data, stack, css, files>>

\* what the file system may do in save_output: fail at makedirs, at the first
\* open, at the second open, or not at all
SaveOutcomes == {"ok", "makedirs", "index.html", "styles.css"}

\* run lines 379-380 with save_output (lines 357-369)
SaveOutput ==
    /\ pc = "save"
    /\ \E outcome \in SaveOutcomes :
          /\ files' = CASE outcome = "ok" ->
                              ("output/index.html" :> html) @@ ("output/styles.css" :> css)
                        [] outcome = "styles.css" -> ("output/index.html" :> html)
                        [] OTHER -> files
          /\ IF outcome = "ok"
             THEN /\ stdout' = stdout \o << <<"Saving output files...">>,
                                            <<"Files saved to output/ directory:">>,
                                            <<"- output/index.html">>,
                                            <<"- output/styles.css">> >>
                  /\ exc' = exc
                  /\ pc' = "complete"
             ELSE /\ stdout' = Append(stdout, <<"Saving output files...">>)
                  /\ exc' = Some([type |-> "OSError", msg |-> <<"cannot write ", outcome>>])
                  /\ pc' = "except"
    /\ UNCHANGED <<access_token, response, requests, figma_data, stack, css, html>>

\* run line 382
Complete ==
    /\ pc = "complete"
    /\ stdout' = Append(stdout, <<"Conversion complete!">>)
    /\ pc' = "done"
    /\ UNCHANGED <<access_token, response, exc, requests, figma_data, stack, css, html, files>>

Hints ==
    << <<"\nMake sure you have:">>,
       <<"1. Created a .env file with your FIGMA_ACCESS_TOKEN">>,
       <<"2. Copied the Figma file to your workspace">>,
       <<"3. Updated the FIGMA_FILE_KEY in your .env file">> >>

\* main lines 389-394
HandleException ==
    /\ pc = "except"
    /\ stdout' = Append(stdout, <<"Error: ">> \o exc[1].msg) \o Hints
    /\ pc' = "failed"
    /\ UNCHANGED <<access_token, response, exc, requests, figma_data, stack, css, html, files>>

Next ==
    \/ Construct
    \/ Fetch
    \/ GenerateStart
    \/ ProcessNodeEnter
    \/ ProcessNodeChild
    \/ ProcessNodeReturn
    \/ BuildHtml
    \/ SaveOutput
    \/ Complete
    \/ HandleException

Spec == Init /\ [][Next]_vars

----------------------------------------------------------------------------
(* Vocabulary of the properties: the nodes of the fetched document, named   *)
(* by their path from the root (the child indexes), and the lines of a      *)
(* rule block.                                                              *)

Fetched == figma_data # None

\* generate_html_css has returned
Converted == pc \in {"html", "save", "complete", "done"}

RECURSIVE PathsOf(_)
PathsOf(node) ==
    {<<>>} \cup UNION {{<<k>> \o q : q \in PathsOf(Children(node)[k])}
                       : k \in 1..Len(Children(node))}

RECURSIVE NodeAt(_, _)
NodeAt(node, path) ==
    IF path = <<>> THEN node ELSE NodeAt(Children(node)[Head(path)], Tail(path))

Paths == PathsOf(Document)

NodeOf(path) == NodeAt(Document, path)

HasBox(node) == "absoluteBoundingBox" \in DOMAIN node

\* the immediate parent of a node that is not the root
ParentOf(path) == NodeOf(SubSeq(path, 1, Len(path) - 1))

\* p is a proper ancestor of q
IsAncestor(p, q) == Len(p) < Len(q) /\ SubSeq(q, 1, Len(p)) = p

\* p is in the subtree of an earlier sibling of an ancestor-or-self of q
IsBefore(p, q) ==
    \E k \in 1..Len(p) :
        /\ k <= Len(q)
        /\ SubSeq(p, 1, k - 1) = SubSeq(q, 1, k - 1)
        /\ p[k] < q[k]

\* the positions of the blocks written for the node at a path
BlocksOf(path) == {j \in 1..Len(css) : css[j].selector = class_name(NodeOf(path))}

ValuesOf(block, prop) ==
    LET ls == SelectSeq(block.lines, LAMBDA l : l.prop = prop)
    IN [j \in 1..Len(ls) |-> ls[j].value]

HasProp(block, prop) == ValuesOf(block, prop) # <<>>

----------------------------------------------------------------------------
(* C1: every node with a bounding box is positioned absolutely at           *)
(* (x - P.x, y - P.y) when its immediate parent has a bounding box P, and   *)
(* at its own (x, y) when it is the root or its parent has no bounding box; *)
(* width and height are its own.                                            *)

ExpectedLeftTop(path) ==
    LET bbox == NodeOf(path)["absoluteBoundingBox"]
    IN IF path # <<>> /\ HasBox(ParentOf(path))
       THEN LET P == ParentOf(path)["absoluteBoundingBox"]
            IN <<bbox["x"] - P["x"], bbox["y"] - P["y"]>>
       ELSE <<bbox["x"], bbox["y"]>>

PositionedAsExpected(block, path) ==
    LET bbox == NodeOf(path)["absoluteBoundingBox"]
    IN /\ ValuesOf(block, "position") = << <<"absolute">> >>
       /\ ValuesOf(block, "left") = <<Px(ExpectedLeftTop(path)[1])>>
       /\ ValuesOf(block, "top") = <<Px(ExpectedLeftTop(path)[2])>>
       /\ ValuesOf(block, "width") = <<Px(bbox["width"])>>
       /\ ValuesOf(block, "height") = <<Px(bbox["height"])>>

\* C1: every rule block written for a node with a bounding box has position
\* absolute, left/top equal to (x - P.x, y - P.y) for the box P of the immediate
\* parent, or to (x, y) when the node is the root or its parent has no box, and
\* the node's own width and height; once the conversion has returned, every
\* such node has its block.
C1_RelativeToImmediateParent ==
    Fetched =>
        \A path \in Paths :
            HasBox(NodeOf(path)) =>
                /\ \A j \in BlocksOf(path) : PositionedAsExpected(css[j], path)
                /\ Converted => BlocksOf(path) # {}

\* witness of C1: a grandchild whose parent and grandparent have different boxes has been converted
C1_Witness ==
    /\ Fetched
    /\ Converted
    /\ \E path \in Paths :
          /\ Len(path) = 2
          /\ HasBox(NodeOf(path)) /\ HasBox(ParentOf(path)) /\ HasBox(Document)
          /\ ParentOf(path)["absoluteBoundingBox"] # Document["absoluteBoundingBox"]
          /\ BlocksOf(path) # {}

----------------------------------------------------------------------------
(* C6: the style sequence is the pre-order of the tree restricted to the    *)
(* nodes that produce a rule: the rule of an ancestor precedes the rules of *)
(* its descendants, and the rules of an earlier sibling's subtree precede   *)
(* those of a later sibling's subtree.                                      *)

\* the nodes that produce a rule
RulePaths ==
    {path \in Paths :
        css_rules(NodeOf(path), IF path = <<>> THEN None ELSE this_bbox(ParentOf(path))) # <<>>}

\* the position the claim gives the rule of a node: after the rules of its
\* ancestors and of the subtrees of earlier siblings
Rank(R, path) ==
    1 + Cardinality({q \in R : IsAncestor(q, path) \/ IsBefore(q, path)})

\* the rule block of the node at a path: the block at its rank, or no lines
RuleOf(R, path) ==
    IF path \in R THEN css[Rank(R, path)] ELSE [selector |-> <<>>, lines |-> <<>>]

\* C6: once the conversion has returned, the style sequence holds exactly one
\* block per rule-producing node, each at the position the pre-order gives it:
\* after the blocks of its ancestors and of the subtrees of earlier siblings.
C6_PreOrder ==
    (Fetched /\ Converted) =>
        LET R == RulePaths
        IN /\ Len(css) = Cardinality(R)
           /\ \A path \in R : css[Rank(R, path)].selector = class_name(NodeOf(path))

\* witness of C6: a tree in which a rule-producing node has a rule-producing child and a later
\* rule-producing sibling
C6_Witness ==
    /\ Fetched
    /\ Converted
    /\ Len(css) = Cardinality(Paths)
    /\ \E p \in Paths, q \in Paths, r \in Paths :
          /\ IsAncestor(p, q) /\ p # <<>>
          /\ IsBefore(q, r)
          /\ Len(r) = Len(p)

----------------------------------------------------------------------------
(* C2: a Text node never gets a background line from its fills, whatever    *)
(* the type of its first fill.                                              *)

IsText(node) == Get(node, "type", "None") = "TEXT"

\* C2: no rule block written for a Text node has a background line.
C2_TextNeverBackground ==
    Fetched =>
        \A path \in Paths :
            IsText(NodeOf(path)) =>
                \A j \in BlocksOf(path) : ~HasProp(css[j], "background")

----------------------------------------------------------------------------
(* C3: class names do not collide.                                          *)

\* C3 (as claimed): the rule blocks of a document, whose ids are distinct, have
\* pairwise distinct class names.
C3_NoCollision ==
    (Fetched /\ Converted) =>
        \A j \in 1..Len(css), k \in 1..Len(css) : j # k => css[j].selector # css[k].selector

\* the characters that end up as "-": "-" itself and every character outside
\* [A-Za-z0-9_-]
Dashed(c) == c \notin (SafeChars \ {"-"})

\* two ids that differ only where both have a character that ends up as "-"
SameAfterDashing(a, b) ==
    /\ Len(a) = Len(b)
    /\ \A k \in 1..Len(a) : a[k] = b[k] \/ (Dashed(a[k]) /\ Dashed(b[k]))

\* C3 (amended): two rule-producing nodes of the same type get the same class
\* name exactly when their ids are the same after dashing.
C3_CollideExactlyWhenSameAfterDashing ==
    (Fetched /\ Converted) =>
        LET R == RulePaths
        IN \A p \in R, q \in R :
              (p # q /\ Get(NodeOf(p), "type", "frame") = Get(NodeOf(q), "type", "frame")) =>
                  ( css[Rank(R, p)].selector = css[Rank(R, q)].selector
                      <=> SameAfterDashing(Get(NodeOf(p), "id", UnknownId),
                                           Get(NodeOf(q), "id", UnknownId)) )

\* witness of C3: two nodes with distinct ids have been given one class name
C3_Witness ==
    /\ Fetched
    /\ Converted
    /\ Len(css) = 2
    /\ css[1].selector = css[2].selector
    /\ \E p \in Paths, q \in Paths :
          /\ p # q /\ p # <<>> /\ q # <<>>
          /\ NodeOf(p)["id"] # NodeOf(q)["id"]

----------------------------------------------------------------------------
(* C4: the conversion never raises, whatever fields are missing.            *)

\* C4: once the document is fetched, no exception is raised by the conversion:
\* the only failure left is one of the file system in save_output.
C4_ConversionNeverRaises ==
    (Fetched /\ exc # None) => exc[1].type \in {"OSError"}

----------------------------------------------------------------------------
(* C5: the steps of a run happen in the order configuration check, fetch,   *)
(* convert, write, completion line, and a failure at a step prevents every  *)
(* later step: without a token no request is made; a failed fetch is not    *)
(* retried, writes no file and prints no completion line; every failing run *)
(* ends with the error message followed by the three remediation hints.     *)

Printed(line) == \E j \in 1..Len(stdout) : stdout[j] = line

Failure == IF exc = None THEN "none" ELSE exc[1].type

\* what has happened so far respects the order of the steps
StepsInOrder ==
    /\ requests # <<>> => ~TokenMissing
    /\ Len(requests) <= 1
    /\ Fetched => (Len(requests) = 1 /\ Failure \notin {"ConnectionError", "HTTPError"})
    /\ (css # <<>> \/ stack # <<>> \/ html # <<>>) => Fetched
    /\ html # <<>> => (stack = <<>> /\ Failure \notin {"KeyError"})
    /\ DOMAIN files # {} => (html # <<>> /\ files["output/index.html"] = html)
    /\ "output/styles.css" \in DOMAIN files => files["output/styles.css"] = css
    /\ Printed(<<"Conversion complete!">>) =>
           (DOMAIN files = {"output/index.html", "output/styles.css"} /\ Failure = "none")

\* a failure stops the run: nothing is requested, converted or written after it
FailureStops ==
    /\ Failure = "ValueError" => (requests = <<>> /\ ~Fetched)
    /\ Failure \in {"ValueError", "ConnectionError", "HTTPError"} =>
           (~Fetched /\ css = <<>> /\ stack = <<>> /\ html = <<>> /\ DOMAIN files = {})
    /\ Failure = "KeyError" => (html = <<>> /\ DOMAIN files = {})
    /\ Failure # "none" => (pc \in {"except", "failed"} /\ ~Printed(<<"Conversion complete!">>))

\* a run that has ended has either printed the completion line last, or the error
\* message and the three hints last
Endings ==
    /\ pc = "done" => (Failure = "none" /\ stdout[Len(stdout)] = <<"Conversion complete!">>)
    /\ pc = "failed" =>
          /\ Failure # "none"
          /\ Len(stdout) >= 1 + Len(Hints)
          /\ SubSeq(stdout, Len(stdout) - Len(Hints), Len(stdout))
                 = << <<"Error: ">> \o exc[1].msg >> \o Hints

\* after a failure no step but the handler's print happens
AfterFailure ==
    Failure # "none" =>
        /\ requests' = requests
        /\ figma_data' = figma_data
        /\ css' = css
        /\ html' = html
        /\ files' = files
        /\ exc' = exc

\* C5: in every state what has happened respects the order of the steps, a
\* failure has stopped the run and an ended run has printed its ending; and
\* no step after a failure requests, converts or writes anything.
C5_OrderAndAbort ==
    /\ [](StepsInOrder /\ FailureStops /\ Endings)
    /\ [][AfterFailure]_vars

\* witness of C5: a run whose fetch failed has ended
C5_Witness ==
    /\ pc = "failed"
    /\ Failure \in {"ConnectionError", "HTTPError"}
    /\ Len(requests) = 1

----------------------------------------------------------------------------
(* C7: the keyword transparent is never written into the stylesheet.        *)

Mentions(value, token) == \E k \in 1..Len(value) : value[k] = token

\* C7 (as claimed): no line of any rule block contains the keyword transparent.
C7_TransparentNeverWritten ==
    \A j \in 1..Len(css) :
        \A k \in 1..Len(css[j].lines) : ~Mentions(css[j].lines[k].value, "transparent")

NoColor(paint) == DOMAIN Get(paint, "color", EmptyDict) = {}

FirstOf(node, key) ==
    IF key \in DOMAIN node /\ node[key] # <<>> THEN Some(node[key][1]) ELSE None

\* the first fill is no paint: none, an empty one, a solid one without colour, or
\* one that is neither solid nor a linear gradient
FirstFillIsNoPaint(node) ==
    LET fill == FirstOf(node, "fills")
    IN \/ ~Truthy(fill)
       \/ Get(fill[1], "type", "None") \notin {"SOLID", "GRADIENT_LINEAR"}
       \/ Get(fill[1], "type", "None") = "SOLID" /\ NoColor(fill[1])

\* where the keyword may still be written for a node
MayMention(node, prop) ==
    \/ /\ prop = "color"
       /\ IsText(node)
       /\ Truthy(FirstOf(node, "fills"))
       /\ NoColor(FirstOf(node, "fills")[1])
    \/ /\ prop = "background"
       /\ Truthy(FirstOf(node, "fills"))
       /\ Get(FirstOf(node, "fills")[1], "type", "None") = "GRADIENT_LINEAR"
       /\ LET stops == Get(FirstOf(node, "fills")[1], "gradientStops", <<>>)
          IN stops = <<>> \/ NoColor(stops[1])
    \/ /\ prop = "border"
       /\ FirstOf(node, "strokes") # None
       /\ NoColor(FirstOf(node, "strokes")[1])
    \/ /\ prop = "box-shadow"
       /\ \E k \in 1..Len(node["effects"]) : NoColor(node["effects"][k])

\* C7 (amended): the sentinel alone is never a background, a non-text node whose
\* first fill is no paint has no background line, and the keyword is written
\* only in the color, border and box-shadow of a paint without colour and inside
\* the linear-gradient() of a gradient without stops or whose first stop has no
\* colour.
C7_SentinelNeverBackground ==
    (Fetched /\ Converted) =>
        LET R == RulePaths IN
        \A path \in Paths :
            LET block == RuleOf(R, path)
                node == NodeOf(path)
            IN /\ \A k \in 1..Len(block.lines) :
                      /\ block.lines[k].prop = "background" =>
                             block.lines[k].value # <<"transparent">>
                      /\ Mentions(block.lines[k].value, "transparent") =>
                             MayMention(node, block.lines[k].prop)
               /\ (~IsText(node) /\ FirstFillIsNoPaint(node)) => ~HasProp(block, "background")

\* witness of C7: a non-text node whose first fill is present and is no paint has got a rule, and
\* the rule mentions the keyword elsewhere
C7_Witness ==
    /\ Fetched
    /\ Converted
    /\ ~IsText(Document)
    /\ Truthy(FirstOf(Document, "fills"))
    /\ FirstFillIsNoPaint(Document)
    /\ Len(css) = 1
    /\ \E k \in 1..Len(css[1].lines) : Mentions(css[1].lines[k].value, "transparent")

----------------------------------------------------------------------------
(* C8: a node whose resolved properties are empty contributes no rule block *)
(* and every rule block has at least one line; a node with an empty or      *)
(* absent fills list and no other styled field produces no block, and a     *)
(* node with an empty or absent fills list gets no background line.         *)

NoFills(node) == "fills" \notin DOMAIN node \/ node["fills"] = <<>>

\* the fields from which no property is resolved, fills aside
UnstyledFields == {"id", "type", "name", "characters", "children", "fills"}

Unstyled(node) ==
    /\ DOMAIN node \subseteq UnstyledFields
    /\ NoFills(node)

\* C8: every rule block has at least one line, the style sequence has one block
\* per node whose resolved properties are not empty and none for the others, a
\* node with no fills and no styled field has no block, and a node with no
\* fills has no background line.
C8_NoEmptyRule ==
    Fetched =>
        /\ \A j \in 1..Len(css) : css[j].lines # <<>>
        /\ Converted => Len(css) = Cardinality(RulePaths)
        /\ \A path \in Paths :
              /\ Unstyled(NodeOf(path)) => BlocksOf(path) = {}
              /\ NoFills(NodeOf(path)) =>
                     \A j \in BlocksOf(path) : ~HasProp(css[j], "background")

\* witness of C8: a node with an empty fills list and no styled field has been converted
C8_Witness ==
    /\ Fetched
    /\ Converted
    /\ "fills" \in DOMAIN Document
    /\ Document["fills"] = <<>>
    /\ Unstyled(Document)
    /\ css = <<>>

----------------------------------------------------------------------------
(* C9: the box-shadow lines of a rule are, in order, one per drop-shadow    *)
(* effect of the node, each with that effect's offset, radius and colour;   *)
(* other effects add no line.                                               *)

DropShadows(node) ==
    IF "effects" \in DOMAIN node
    THEN SelectSeq(node["effects"], LAMBDA e : Get(e, "type", "None") = "DROP_SHADOW")
    ELSE <<>>

ShadowValue(effect) ==
    LET offset == Get(effect, "offset", EmptyDict)
    IN <<ToString(Get(offset, "x", 0)), "px ", ToString(Get(offset, "y", 0)), "px ",
         ToString(Get(effect, "radius", 0)), "px ">>
           \o convert_color(Get(effect, "color", EmptyDict))

\* C9: the box-shadow lines of the rule of every node are, in order, the values
\* of the drop-shadow entries of its effects list (none for a node without a
\* rule).
C9_OneShadowPerDropShadow ==
    (Fetched /\ Converted) =>
        LET R == RulePaths IN
        \A path \in Paths :
            LET shadows == DropShadows(NodeOf(path))
            IN ValuesOf(RuleOf(R, path), "box-shadow")
                   = [k \in 1..Len(shadows) |-> ShadowValue(shadows[k])]

\* witness of C9: a node with two different drop shadows has been converted
C9_Witness ==
    /\ Fetched
    /\ Converted
    /\ Len(DropShadows(Document)) >= 2
    /\ DropShadows(Document)[1] # DropShadows(Document)[2]
    /\ Len(ValuesOf(css[1], "box-shadow")) >= 2

----------------------------------------------------------------------------
(* C10: flex-direction comes only with display: flex, and justify-content   *)
(* and align-items only with display: flex too.                             *)

FlexMode(node) == Get(node, "layoutMode", "None") \in {"HORIZONTAL", "VERTICAL"}

\* C10 (as claimed): a rule block has flex-direction only with display, and
\* justify-content or align-items only with display: flex.
C10_AlignOnlyWithFlex ==
    \A j \in 1..Len(css) :
        /\ HasProp(css[j], "flex-direction") => HasProp(css[j], "display")
        /\ (HasProp(css[j], "justify-content") \/ HasProp(css[j], "align-items"))
               => ValuesOf(css[j], "display") = << <<"flex">> >>

\* C10 (amended): display: flex and flex-direction come together, exactly for a
\* horizontal or vertical layoutMode; justify-content and align-items come
\* exactly when layoutMode is present, with any value, and the alignment field
\* is present.
C10_AlignOnlyWithLayoutMode ==
    (Fetched /\ Converted) =>
        LET R == RulePaths IN
        \A path \in Paths :
            LET block == RuleOf(R, path)
                node == NodeOf(path)
            IN /\ HasProp(block, "display") <=> FlexMode(node)
               /\ HasProp(block, "flex-direction") <=> FlexMode(node)
               /\ HasProp(block, "display") => ValuesOf(block, "display") = << <<"flex">> >>
               /\ HasProp(block, "justify-content")
                      <=> ("layoutMode" \in DOMAIN node /\ "primaryAxisAlignItems" \in DOMAIN node)
               /\ HasProp(block, "align-items")
                      <=> ("layoutMode" \in DOMAIN node /\ "counterAxisAlignItems" \in DOMAIN node)

\* witness of C10: a node whose layoutMode is neither horizontal nor vertical has got an
\* alignment without display: flex
C10_Witness ==
    /\ Fetched
    /\ Converted
    /\ css # <<>>
    /\ "layoutMode" \in DOMAIN Document
    /\ ~FlexMode(Document)
    /\ HasProp(css[1], "justify-content")
    /\ ~HasProp(css[1], "display")

====
